---------------------------- MODULE Spec2Model ----------------------------
(***************************************************************************)
(* Model of line-stitch's DualQuadTree (src/src/dual_quad_tree.rs) and of  *)
(* PathSegment::new (src/src/lib.rs).                                      *)
(*                                                                         *)
(* Coordinates and tolerances are integers (the code uses f32; no claim    *)
(* below depends on rounding).  Every point lies inside the rectangle the  *)
(* tree was built with, so QuadTree::insert_with_box returns Some and the  *)
(* unwrap() calls of insert succeed.                                       *)
(***************************************************************************)
EXTENDS Integers, Sequences, FiniteSets, TLC

\* Cap on the identifier counter: insert is enabled only below it.
MaxInserts == 2

\* Longest point sequence handed to PathSegment::new on its own.
MaxPathLen == 3

\* DualQuadTree.id is a u32.  A u32 is written here as the 32-bit
\* two's-complement integer with the same bits (the checker's integers are
\* 32 bits wide): 0 .. I32Max stand for themselves, v above I32Max is written
\* v - 2^32, and u32::MAX is written -1.
I32Max == 2147483647

U32_MAX == -1

\* v + 1 on the bits of a u32
u32_wrapping_inc(v) == IF v = I32Max THEN (-I32Max) - 1 ELSE v + 1

(***************************************************************************)
(* Geometry (euclid TypedPoint2D / TypedRect as the tree uses them).       *)
(***************************************************************************)
Pt(x, y) == [x |-> x, y |-> y]

Points == {Pt(0, 0), Pt(1, 0), Pt(2, 0), Pt(1, 1)}

\* Tolerances handed to query_forward / query_backward.
Epsilons == {1, 2}

\* Tolerances handed to has_forward_neighbor / has_backward_neighbor.
ProbeEpsilons == {1}

\* Tolerances handed to PathSegment::new.
NewEpsilons == {0, 1, 2}

\* Spatial::aabb of a point: the zero-sized rectangle at the point.
aabb(point) == [origin |-> point, size |-> [width |-> 0, height |-> 0]]

\* TypedRect::inflate
inflate(r, w, h) ==
    [origin |-> Pt(r.origin.x - w, r.origin.y - h),
     size   |-> [width |-> r.size.width + 2 * w, height |-> r.size.height + 2 * h]]

\* TypedRect::intersects (strict on every side)
intersects(a, b) ==
    /\ a.origin.x < b.origin.x + b.size.width
    /\ b.origin.x < a.origin.x + a.size.width
    /\ a.origin.y < b.origin.y + b.size.height
    /\ b.origin.y < a.origin.y + a.size.height

\* contains with the upper edges counted in
contains_inclusive(r, p) ==
    /\ r.origin.x <= p.x /\ p.x <= r.origin.x + r.size.width
    /\ r.origin.y <= p.y /\ p.y <= r.origin.y + r.size.height

\* TypedRect::contains (closed below, open above)
contains(r, p) ==
    /\ r.origin.x <= p.x /\ p.x < r.origin.x + r.size.width
    /\ r.origin.y <= p.y /\ p.y < r.origin.y + r.size.height

\* util::centered_with_radius: the square of half-width radius around pt.
centered_with_radius(pt, radius) == inflate(aabb(pt), radius, radius)

(***************************************************************************)
(* PathSegment (lib.rs).  The memoised lengths are left out here.          *)
(***************************************************************************)
PanicVal == [tag |-> "panic"]
NoneVal == [tag |-> "none"]
SomeVal(v) == [tag |-> "some", val |-> v]
UnitVal == [tag |-> "unit"]
BoolVal(b) == [tag |-> "bool", val |-> b]

\* SmallVec::pop on a non-empty vector
PopLast(path) == SubSeq(path, 1, Len(path) - 1)

\* PathSegment::new; PanicVal when assert!(path.len() > 1) fails.
PathSegment_new(path, epsilon) ==
    IF ~(Len(path) > 1) THEN PanicVal
    ELSE LET first_pt == path[1]
             last_pt == path[Len(path)]
             query_rect == centered_with_radius(first_pt, epsilon)
             closed == contains(query_rect, last_pt)
         IN  SomeVal([path |-> IF closed THEN PopLast(path) ELSE path,
                      closed |-> closed])

first(segment) == segment.path[1]

last(segment) == segment.path[Len(segment.path)]

Reverse(s) == [i \in 1..Len(s) |-> s[Len(s) + 1 - i]]

reverse_and_return(v) == [v EXCEPT !.path = Reverse(v.path)]

(***************************************************************************)
(* QuadTree (aabb_quadtree): a table from generated ItemIds to (key, box). *)
(***************************************************************************)
EmptyFn == [i \in {} |-> 0]

QuadTree_default == [id |-> 0, elements |-> EmptyFn]

FnPut(f, k, v) == [i \in DOMAIN f \cup {k} |-> IF i = k THEN v ELSE f[i]]

FnDel(f, k) == [i \in DOMAIN f \ {k} |-> f[i]]

\* QuadTree::insert_with_box: the tree after, and the handle it generated.
insert_with_box(qt, t, box) ==
    [qt |-> [id |-> qt.id + 1,
             elements |-> FnPut(qt.elements, qt.id, [t |-> t, aabb |-> box])],
     item |-> qt.id]

\* QuadTree::remove
qt_remove(qt, item) == [qt EXCEPT !.elements = FnDel(@, item)]

\* QuadTree::query: the handles of the entries whose box intersects bounding_box.
query(qt, bounding_box) ==
    {i \in DOMAIN qt.elements : intersects(qt.elements[i].aabb, bounding_box)}

\* The QuadTree of ambiguity points.  The code discards the handles its
\* insert generates and never removes an entry, and only asks whether a
\* query has any hit, so this tree is kept as the set of the points inserted.
insert_point(points, point) == points \cup {point}

query_points(points, bounding_box) ==
    {p \in points : intersects(aabb(p), bounding_box)}

(***************************************************************************)
(* DualQuadTree                                                            *)
(***************************************************************************)
DualQuadTree_new ==
    [id |-> 0,
     id_to_segment |-> EmptyFn,
     starts |-> QuadTree_default,
     ends |-> QuadTree_default,
     ambiguity_points |-> {}]

\* insert with the ends entry placed at the segment's first point.
insert_end_at_first(self, segment) ==
    LET id == self.id
        s == insert_with_box(self.starts, id, aabb(first(segment)))
        e == insert_with_box(self.ends, id, aabb(first(segment)))
    IN  {[tree |-> [id |-> u32_wrapping_inc(self.id),
                    id_to_segment |->
                        FnPut(self.id_to_segment, id,
                              [segment |-> segment, start_id |-> s.item,
                               end_id |-> e.item]),
                    starts |-> s.qt,
                    ends |-> e.qt,
                    ambiguity_points |-> self.ambiguity_points],
          ret |-> UnitVal]}

\* insert: the possible (tree after, outcome) pairs.  `self.id += 1` on
\* u32::MAX panics in a build with overflow checks, before anything is
\* changed, and wraps to 0 in a build without them.
insert(self, segment) ==
    LET id == self.id
        s == insert_with_box(self.starts, id, aabb(first(segment)))
        e == insert_with_box(self.ends, id, aabb(last(segment)))
        done == [tree |-> [id |-> u32_wrapping_inc(self.id),
                           id_to_segment |->
                               FnPut(self.id_to_segment, id,
                                     [segment |-> segment, start_id |-> s.item,
                                      end_id |-> e.item]),
                           starts |-> s.qt,
                           ends |-> e.qt,
                           ambiguity_points |-> self.ambiguity_points],
                 ret |-> UnitVal]
    IN  IF self.id = U32_MAX
        THEN {[tree |-> self, ret |-> PanicVal], done}
        ELSE {done}

\* remove that hands the segment out and leaves every entry in place
remove_peek(self, dqt_id) ==
    IF dqt_id \notin DOMAIN self.id_to_segment
    THEN [tree |-> self, ret |-> PanicVal]
    ELSE [tree |-> self, ret |-> SomeVal(self.id_to_segment[dqt_id].segment)]

\* remove that returns None for an absent identifier instead of panicking.
remove_lenient(self, dqt_id) ==
    IF dqt_id \notin DOMAIN self.id_to_segment
    THEN [tree |-> self, ret |-> NoneVal]
    ELSE LET entry == self.id_to_segment[dqt_id]
         IN  [tree |-> [self EXCEPT !.id_to_segment = FnDel(@, dqt_id),
                                    !.starts = qt_remove(@, entry.start_id),
                                    !.ends = qt_remove(@, entry.end_id)],
              ret |-> SomeVal(entry.segment)]

\* remove without self.ends.remove(end_id).
remove_keeps_ends(self, dqt_id) ==
    IF dqt_id \notin DOMAIN self.id_to_segment
    THEN [tree |-> self, ret |-> PanicVal]
    ELSE LET entry == self.id_to_segment[dqt_id]
         IN  [tree |-> [self EXCEPT !.id_to_segment = FnDel(@, dqt_id),
                                    !.starts = qt_remove(@, entry.start_id)],
              ret |-> SomeVal(entry.segment)]

\* remove without self.starts.remove(start_id).
remove_keeps_starts(self, dqt_id) ==
    IF dqt_id \notin DOMAIN self.id_to_segment
    THEN [tree |-> self, ret |-> PanicVal]
    ELSE LET entry == self.id_to_segment[dqt_id]
         IN  [tree |-> [self EXCEPT !.id_to_segment = FnDel(@, dqt_id),
                                    !.ends = qt_remove(@, entry.end_id)],
              ret |-> SomeVal(entry.segment)]

\* remove: the tree after and what the caller gets; the unwrap() on an
\* absent identifier panics before anything is changed.
remove(self, dqt_id) ==
    IF dqt_id \notin DOMAIN self.id_to_segment
    THEN [tree |-> self, ret |-> PanicVal]
    ELSE LET entry == self.id_to_segment[dqt_id]
         IN  [tree |-> [self EXCEPT !.id_to_segment = FnDel(@, dqt_id),
                                    !.starts = qt_remove(@, entry.start_id),
                                    !.ends = qt_remove(@, entry.end_id)],
              ret |-> SomeVal(entry.segment)]

\* pop that hands the segment out and leaves it in the tree
pop_peek(self) ==
    IF DOMAIN self.id_to_segment = {}
    THEN {[tree |-> self, ret |-> NoneVal]}
    ELSE {[tree |-> self, ret |-> SomeVal(self.id_to_segment[dqt_id].segment)] :
              dqt_id \in DOMAIN self.id_to_segment}

\* pop: the map's iteration order is unspecified, so any live identifier
\* may be the first.
pop(self) ==
    IF DOMAIN self.id_to_segment = {}
    THEN {[tree |-> self, ret |-> NoneVal]}
    ELSE {remove(self, dqt_id) : dqt_id \in DOMAIN self.id_to_segment}

\* has_forward_neighbor without the qid != id filter
has_forward_neighbor_unfiltered(self, id, point, epsilon) ==
    LET query_aabb == inflate(aabb(point), epsilon * 2, epsilon * 2)
    IN  Cardinality(query(self.ends, query_aabb)) # 0

has_forward_neighbor(self, id, point, epsilon) ==
    LET query_aabb == inflate(aabb(point), epsilon * 2, epsilon * 2)
    IN  Cardinality({i \in query(self.ends, query_aabb) : self.ends.elements[i].t # id}) # 0

has_backward_neighbor(self, id, point, epsilon) ==
    LET query_aabb == inflate(aabb(point), epsilon * 2, epsilon * 2)
    IN  Cardinality({i \in query(self.starts, query_aabb) : self.starts.elements[i].t # id}) # 0

\* Result<Option<DqtId>, ()>
OkNone == [tag |-> "ok_none"]
OkSome(id) == [tag |-> "ok_some", id |-> id]
Err == [tag |-> "err"]

\* The closures without the Err(()) return: a second hit is ignored.
query_index_first_hit(qt, query_aabb, allow_ambiguous) ==
    LET hits == query(qt, query_aabb)
    IN  IF hits = {} THEN {OkNone}
        ELSE {OkSome(qt.elements[i].t) : i \in hits}

\* The closures query_starts / query_ends of query_impl, over one index.
\* The order in which QuadTree::query lists its hits is not specified, so
\* with allow_ambiguous any hit may be the first one seen.
query_index(qt, query_aabb, allow_ambiguous) ==
    LET hits == query(qt, query_aabb)
    IN  IF hits = {} THEN {OkNone}
        ELSE IF allow_ambiguous THEN {OkSome(qt.elements[i].t) : i \in hits}
        ELSE IF Cardinality(hits) > 1 THEN {Err}
        ELSE {OkSome(qt.elements[i].t) : i \in hits}

query_starts(self, query_aabb, allow_ambiguous) ==
    query_index(self.starts, query_aabb, allow_ambiguous)

\* query_ends that never sees an entry
query_ends_blind(self, query_aabb, allow_ambiguous) == {OkNone}

query_ends(self, query_aabb, allow_ambiguous) ==
    query_index(self.ends, query_aabb, allow_ambiguous)

\* query_impl without the look-up in ambiguity_points.
query_impl_unchecked(self, point, epsilon, allow_ambiguous) ==
    LET query_aabb == inflate(aabb(point), epsilon, epsilon)
    IN  query_index(self.starts, query_aabb, allow_ambiguous)
           \X query_index(self.ends, query_aabb, allow_ambiguous)

\* query_impl: the possible (starts result, ends result) pairs.
query_impl(self, point, epsilon, allow_ambiguous) ==
    LET query_aabb == inflate(aabb(point), epsilon, epsilon)
    IN  IF Cardinality(query_points(self.ambiguity_points, query_aabb)) > 0
        THEN {<<OkNone, OkNone>>}
        ELSE query_starts(self, query_aabb, allow_ambiguous)
                \X query_ends(self, query_aabb, allow_ambiguous)

\* marking that forgets the points recorded before
mark_ambiguous_clearing(self, point) ==
    [self EXCEPT !.ambiguity_points = {point}]

\* The match arms without self.ambiguity_points.insert(point).
mark_ambiguous_noop(self, point) == self

\* self.ambiguity_points.insert(point)
mark_ambiguous(self, point) ==
    [self EXCEPT !.ambiguity_points = insert_point(@, point)]

\* remove(b) without the reversal
remove_unreversed(self, b) == remove(self, b)

\* remove(b).map(reverse_and_return)
remove_reversed(self, b) ==
    LET r == remove(self, b)
    IN  IF r.ret.tag = "some"
        THEN [r EXCEPT !.ret = SomeVal(reverse_and_return(r.ret.val))]
        ELSE r

\* The match of query_direction on one (start, end) pair, after the swap.
direction_match(self, start, end, point, only_starts, allow_ambiguous) ==
    IF only_starts
    THEN IF start.tag = "ok_some" /\ end.tag = "ok_some"
            THEN [tree |-> mark_ambiguous(self, point), ret |-> NoneVal]
         ELSE IF start.tag = "ok_some" THEN remove(self, start.id)
         ELSE IF start.tag = "ok_none" THEN [tree |-> self, ret |-> NoneVal]
         ELSE [tree |-> mark_ambiguous(self, point), ret |-> NoneVal]
    ELSE IF start.tag = "ok_none" /\ end.tag = "ok_none"
            THEN [tree |-> self, ret |-> NoneVal]
         ELSE IF start.tag = "ok_some" /\ end.tag = "ok_some" /\ allow_ambiguous
            THEN remove(self, start.id)
         ELSE IF start.tag = "ok_some" /\ end.tag = "ok_some"
            THEN [tree |-> mark_ambiguous(self, point), ret |-> NoneVal]
         ELSE IF start.tag = "ok_some" /\ end.tag = "ok_none"
            THEN remove(self, start.id)
         ELSE IF start.tag = "ok_none" /\ end.tag = "ok_some"
            THEN remove_reversed(self, end.id)
         ELSE [tree |-> mark_ambiguous(self, point), ret |-> NoneVal]

\* query_direction: the possible (tree after, returned value) outcomes.
query_direction(self, should_swap, point, epsilon, only_starts, allow_ambiguous) ==
    {direction_match(self,
                     IF should_swap THEN se[2] ELSE se[1],
                     IF should_swap THEN se[1] ELSE se[2],
                     point, only_starts, allow_ambiguous) :
        se \in query_impl(self, point, epsilon, allow_ambiguous)}

\* query_forward passing should_swap = true.
query_forward_swapped(self, point, epsilon, only_starts, allow_ambiguous) ==
    query_direction(self, TRUE, point, epsilon, only_starts, allow_ambiguous)

query_forward(self, point, epsilon, only_starts, allow_ambiguous) ==
    query_direction(self, FALSE, point, epsilon, only_starts, allow_ambiguous)

\* query_backward that takes its match out of the tree and hands nothing back
query_backward_dropping(self, point, epsilon, only_starts, allow_ambiguous) ==
    {[tree |-> r.tree, ret |-> NoneVal] :
        r \in query_direction(self, TRUE, point, epsilon, only_starts, allow_ambiguous)}

\* query_backward passing should_swap = false.
query_backward_unswapped(self, point, epsilon, only_starts, allow_ambiguous) ==
    query_direction(self, FALSE, point, epsilon, only_starts, allow_ambiguous)

query_backward(self, point, epsilon, only_starts, allow_ambiguous) ==
    query_direction(self, TRUE, point, epsilon, only_starts, allow_ambiguous)

(***************************************************************************)
(* The state machine: one tree and a caller that calls its operations one  *)
(* at a time (every operation takes &mut self or &self and runs to         *)
(* completion).                                                            *)
(*   tree     the DualQuadTree                                             *)
(*   call     the operation performed last, with its arguments             *)
(*   ret      what that operation returned (PanicVal: it panicked)         *)
(*   removed  the identifiers taken out of the tree so far and not         *)
(*            assigned again since                                         *)
(*   pre      tree and removed as they were when that operation was called *)
(***************************************************************************)
VARIABLES tree, call, ret, removed, pre

vars == <<tree, call, ret, removed, pre>>

PathA == <<Pt(0, 0), Pt(1, 0)>>
PathB == <<Pt(1, 0), Pt(2, 0)>>
PathC == <<Pt(1, 0), Pt(1, 1)>>

\* The segments handed to insert: what PathSegment::new builds from these.
InsertPaths == {PathA, PathB, PathC}

InsertEpsilons == {1}

Segments ==
    {PathSegment_new(p, e).val : p \in InsertPaths, e \in InsertEpsilons}

\* The point sequences handed to PathSegment::new on its own.
NewPaths == UNION {[1..n -> Points] : n \in 0..MaxPathLen}

Live(t) == DOMAIN t.id_to_segment

Init ==
    /\ tree = DualQuadTree_new
    /\ call = [op |-> "init"]
    /\ ret = UnitVal
    /\ removed = {}
    /\ pre = [tree |-> DualQuadTree_new, removed |-> {}]

\* One call: the program stops at a panic.
Step(c, after, r) ==
    /\ ret.tag # "panic"
    /\ call' = c
    /\ ret' = r
    /\ tree' = after
    /\ removed' = (removed \cup (Live(tree) \ Live(after))) \ (Live(after) \ Live(tree))
    /\ pre' = [tree |-> tree, removed |-> removed]

New ==
    \E path \in NewPaths, epsilon \in NewEpsilons :
        Step([op |-> "new", path |-> path, epsilon |-> epsilon],
             tree, PathSegment_new(path, epsilon))

Insert ==
    /\ tree.id < MaxInserts
    /\ \E segment \in Segments :
        \E r \in insert(tree, segment) :
            Step([op |-> "insert", segment |-> segment], r.tree, r.ret)

\* remove with an identifier the tree has handed out (live or stale).
Remove ==
    \E dqt_id \in 0..(tree.id - 1) :
        \E r \in {remove(tree, dqt_id)} :
            Step([op |-> "remove", dqt_id |-> dqt_id], r.tree, r.ret)

Pop ==
    \E r \in pop(tree) : Step([op |-> "pop"], r.tree, r.ret)

HasForwardNeighbor ==
    \E id \in 0..(tree.id - 1), point \in Points, epsilon \in ProbeEpsilons :
        Step([op |-> "has_forward_neighbor", id |-> id, point |-> point,
              epsilon |-> epsilon],
             tree, BoolVal(has_forward_neighbor(tree, id, point, epsilon)))

HasBackwardNeighbor ==
    \E id \in 0..(tree.id - 1), point \in Points, epsilon \in ProbeEpsilons :
        Step([op |-> "has_backward_neighbor", id |-> id, point |-> point,
              epsilon |-> epsilon],
             tree, BoolVal(has_backward_neighbor(tree, id, point, epsilon)))

QueryForward ==
    \E point \in Points, epsilon \in Epsilons, only_starts \in BOOLEAN, allow_ambiguous \in BOOLEAN :
        \E r \in query_forward(tree, point, epsilon, only_starts, allow_ambiguous) :
            Step([op |-> "query_forward", point |-> point, epsilon |-> epsilon,
                  only_starts |-> only_starts, allow_ambiguous |-> allow_ambiguous],
                 r.tree, r.ret)

QueryBackward ==
    \E point \in Points, epsilon \in Epsilons, only_starts \in BOOLEAN, allow_ambiguous \in BOOLEAN :
        \E r \in query_backward(tree, point, epsilon, only_starts, allow_ambiguous) :
            Step([op |-> "query_backward", point |-> point, epsilon |-> epsilon,
                  only_starts |-> only_starts, allow_ambiguous |-> allow_ambiguous],
                 r.tree, r.ret)

\* The tree under insertion, removal and the consuming queries.
Next ==
    \/ Insert
    \/ Remove
    \/ Pop
    \/ QueryForward
    \/ QueryBackward

Spec == Init /\ [][Next]_vars

\* The tree under insertion, removal and the read-only probes.
NextProbes ==
    \/ Insert
    \/ Remove
    \/ Pop
    \/ HasForwardNeighbor
    \/ HasBackwardNeighbor

SpecProbes == Init /\ [][NextProbes]_vars

\* PathSegment::new on its own, over every short point sequence.
NextNew == New

SpecNew == Init /\ [][NextNew]_vars

(***************************************************************************)
(* Vocabulary of the properties.  Each is stated of the call performed     *)
(* last: pre.tree is the tree it was made on, tree the tree it left, ret   *)
(* what it returned.                                                       *)
(***************************************************************************)
SegmentOf(t, d) == t.id_to_segment[d].segment

\* p lies in the tolerance box of a query at point.
InBox(p, point, epsilon) ==
    intersects(aabb(p), inflate(aabb(point), epsilon, epsilon))

\* The live segments whose first / last stored point lies in the box.
StartsNear(t, point, epsilon) ==
    {d \in Live(t) : InBox(first(SegmentOf(t, d)), point, epsilon)}

EndsNear(t, point, epsilon) ==
    {d \in Live(t) : InBox(last(SegmentOf(t, d)), point, epsilon)}

\* Some recorded ambiguity point lies in the box.
Poisoned(t, point, epsilon) ==
    \E p \in t.ambiguity_points : InBox(p, point, epsilon)

\* The map and the two indices hold the same entries in t and u.
SameSegments(t, u) ==
    /\ t.id_to_segment = u.id_to_segment
    /\ t.starts.elements = u.starts.elements
    /\ t.ends.elements = u.ends.elements

\* u is t with exactly the segment under d, and its two index entries, gone.
RemovedExactly(t, u, d) ==
    /\ d \in Live(t)
    /\ u.id_to_segment = [k \in Live(t) \ {d} |-> t.id_to_segment[k]]
    /\ u.starts.elements =
          [i \in DOMAIN t.starts.elements \ {t.id_to_segment[d].start_id} |->
              t.starts.elements[i]]
    /\ u.ends.elements =
          [i \in DOMAIN t.ends.elements \ {t.id_to_segment[d].end_id} |->
              t.ends.elements[i]]

IsQuery == call.op \in {"query_forward", "query_backward"}

\* The identifiers the last call took out of the tree.
Taken == Live(pre.tree) \ Live(tree)

\* The last call was a query that recorded its point and gave nothing back.
Deferred ==
    /\ ret = NoneVal
    /\ SameSegments(tree, pre.tree)
    /\ call.point \in tree.ambiguity_points

IsReverseOf(p, q) ==
    /\ Len(p) = Len(q)
    /\ \A i \in 1..Len(p) : p[i] = q[Len(q) + 1 - i]

SegA == PathSegment_new(PathA, 1).val
SegB == PathSegment_new(PathB, 1).val
SegC == PathSegment_new(PathC, 1).val

\* The segments live in t, as a set.
LiveSegments(t) == {SegmentOf(t, d) : d \in Live(t)}

(***************************************************************************)
(* C1  Ambiguity monotonicity: no operation takes a recorded ambiguity     *)
(* point away, and a query_forward or query_backward call (any flags)      *)
(* whose tolerance box contains a point recorded before the call returns   *)
(* no match and leaves the map and both indices as they were.              *)
(***************************************************************************)
C1_AmbiguityMonotonicity ==
    /\ pre.tree.ambiguity_points \subseteq tree.ambiguity_points
    /\ (IsQuery /\ Poisoned(pre.tree, call.point, call.epsilon)) =>
          (ret = NoneVal /\ SameSegments(tree, pre.tree))

\* (1,0) was recorded, segment A was inserted afterwards or left in place,
\* and a query_forward at (0,0), where A starts, with a box reaching (1,0)
\* returned no match.
C1_Witness ==
    /\ call.op = "query_forward"
    /\ call.point = Pt(0, 0)
    /\ call.epsilon = 2
    /\ Pt(1, 0) \in pre.tree.ambiguity_points
    /\ StartsNear(pre.tree, Pt(0, 0), 1) # {}
    /\ ret = NoneVal

(***************************************************************************)
(* C2  Index synchronisation: in every reachable state the identifiers in  *)
(* the starts index, those in the ends index and the keys of the map are   *)
(* the same set, each identifier has exactly one entry in each index, and  *)
(* these entries carry the box of the first / last point of the segment    *)
(* stored under it.                                                        *)
(***************************************************************************)
IndexKeys(qt) == {qt.elements[i].t : i \in DOMAIN qt.elements}

EntriesOf(qt, d) == {i \in DOMAIN qt.elements : qt.elements[i].t = d}

C2_IndexSynchronised ==
    /\ IndexKeys(tree.starts) = Live(tree)
    /\ IndexKeys(tree.ends) = Live(tree)
    /\ \A d \in Live(tree) :
          /\ EntriesOf(tree.starts, d) = {tree.id_to_segment[d].start_id}
          /\ EntriesOf(tree.ends, d) = {tree.id_to_segment[d].end_id}
          /\ tree.starts.elements[tree.id_to_segment[d].start_id].aabb
                = aabb(first(SegmentOf(tree, d)))
          /\ tree.ends.elements[tree.id_to_segment[d].end_id].aabb
                = aabb(last(SegmentOf(tree, d)))

\* A query took one of two segments out; the other is still indexed.
C2_Witness ==
    /\ IsQuery
    /\ ret.tag = "some"
    /\ Cardinality(Live(pre.tree)) = 2
    /\ Cardinality(Live(tree)) = 1
    /\ Cardinality(DOMAIN tree.starts.elements) = 1
    /\ Cardinality(DOMAIN tree.ends.elements) = 1

(***************************************************************************)
(* C3  Direction of query_backward.  As claimed: when query_backward       *)
(* returns a segment matched through the ends index (its stored last point *)
(* lies in the tolerance box), the points come back in the reverse of the  *)
(* stored order.                                                           *)
(***************************************************************************)
C3_BackwardEndsMatchReversed ==
    (call.op = "query_backward" /\ ret.tag = "some") =>
        \A d \in Taken :
            InBox(last(SegmentOf(pre.tree, d)), call.point, call.epsilon) =>
                IsReverseOf(ret.val.path, SegmentOf(pre.tree, d).path)

(***************************************************************************)
(* C3 as amended: when query_backward returns a segment, it took exactly   *)
(* one segment out; if that segment's stored last point lies in the box    *)
(* (a match through the ends index) it is returned as stored, and          *)
(* otherwise its stored first point lies in the box (a match through the   *)
(* starts index, made in general mode only) and it is returned with its    *)
(* points in exactly the reverse of the stored order.                      *)
(***************************************************************************)
C3_BackwardDirection ==
    (call.op = "query_backward" /\ ret.tag = "some") =>
        /\ Cardinality(Taken) = 1
        /\ \A d \in Taken :
              LET seg == SegmentOf(pre.tree, d)
              IN  IF InBox(last(seg), call.point, call.epsilon)
                  THEN ret.val = seg
                  ELSE /\ InBox(first(seg), call.point, call.epsilon)
                       /\ ~call.only_starts
                       /\ IsReverseOf(ret.val.path, seg.path)
                       /\ ret.val.closed = seg.closed

\* query_backward at (1,0), where only A ends, gave A back as stored.
C3_Witness ==
    /\ call.op = "query_backward"
    /\ call.point = Pt(1, 0)
    /\ call.epsilon = 1
    /\ LiveSegments(pre.tree) = {SegA}
    /\ ret = SomeVal(SegA)

(***************************************************************************)
(* C4  Deferral of ambiguity errors.  As claimed: a query with             *)
(* allow_ambiguous = false at an unpoisoned point where the starts index   *)
(* or the ends index has two or more entries in the box records the point, *)
(* returns no match and removes nothing, in starts-only and general mode   *)
(* alike.                                                                  *)
(***************************************************************************)
C4_AnyErrorDeferred ==
    (/\ IsQuery
     /\ ~call.allow_ambiguous
     /\ ~Poisoned(pre.tree, call.point, call.epsilon)
     /\ \/ Cardinality(StartsNear(pre.tree, call.point, call.epsilon)) >= 2
        \/ Cardinality(EndsNear(pre.tree, call.point, call.epsilon)) >= 2)
    => Deferred

\* The index a query tries first (starts for query_forward, ends for
\* query_backward) and the other one, as the sets of identifiers in the box.
FirstRole ==
    IF call.op = "query_forward"
    THEN StartsNear(pre.tree, call.point, call.epsilon)
    ELSE EndsNear(pre.tree, call.point, call.epsilon)

OtherRole ==
    IF call.op = "query_forward"
    THEN EndsNear(pre.tree, call.point, call.epsilon)
    ELSE StartsNear(pre.tree, call.point, call.epsilon)

(***************************************************************************)
(* C4 as amended: with allow_ambiguous = false at an unpoisoned point, two *)
(* or more entries in the box of the index the query tries first (starts   *)
(* for query_forward, ends for query_backward) defer the call in both      *)
(* modes, and two or more entries of the other index defer it in general   *)
(* mode.  In starts-only mode two or more entries of the other index are   *)
(* ignored: with exactly one entry of the first index in the box the call  *)
(* removes and returns that segment as stored and records nothing, and     *)
(* with none it returns no match and changes nothing.                      *)
(***************************************************************************)
C4_ErrorDeferral ==
    (/\ IsQuery
     /\ ~call.allow_ambiguous
     /\ ~Poisoned(pre.tree, call.point, call.epsilon))
    =>
    /\ (\/ Cardinality(FirstRole) >= 2
        \/ (~call.only_starts /\ Cardinality(OtherRole) >= 2))
       => Deferred
    /\ (call.only_starts /\ Cardinality(OtherRole) >= 2 /\ Cardinality(FirstRole) = 1)
       => \A d \in FirstRole :
             /\ ret = SomeVal(SegmentOf(pre.tree, d))
             /\ RemovedExactly(pre.tree, tree, d)
             /\ tree.ambiguity_points = pre.tree.ambiguity_points
    /\ (call.only_starts /\ Cardinality(OtherRole) >= 2 /\ FirstRole = {})
       => (ret = NoneVal /\ tree = pre.tree)

\* Starts-only query_forward at (2,0) with tolerance 2, allow_ambiguous =
\* false: A and B both end in the box, only B starts in it, and the call
\* returned B instead of recording (2,0).
C4_Witness ==
    /\ call.op = "query_forward"
    /\ call.only_starts
    /\ ~call.allow_ambiguous
    /\ call.point = Pt(2, 0)
    /\ call.epsilon = 2
    /\ LiveSegments(pre.tree) = {SegA, SegB}
    /\ ret = SomeVal(SegB)
    /\ tree.ambiguity_points = {}

(***************************************************************************)
(* C5  Segment size.  As claimed: PathSegment::new fails on an input of    *)
(* fewer than 2 points, and every segment it returns has at least 2 stored *)
(* points, for every input and every epsilon.                              *)
(***************************************************************************)
C5_SegmentSize ==
    (call.op = "new") =>
        IF Len(call.path) < 2
        THEN ret = PanicVal
        ELSE ret.tag = "some" /\ Len(ret.val.path) >= 2

(***************************************************************************)
(* C6  remove.  As claimed: remove with an identifier that is not in the   *)
(* tree returns a "not found" outcome (no segment) to the caller.          *)
(***************************************************************************)
C6_UnknownReturnsNotFound ==
    (call.op = "remove" /\ call.dqt_id \notin Live(pre.tree)) => ret = NoneVal

(***************************************************************************)
(* C6 as amended: remove with an identifier that is not in the tree        *)
(* panics, and the map, both indices and the ambiguity points are as they  *)
(* were; with a present identifier it returns the stored segment and       *)
(* removes exactly that map entry and its two index entries, leaving the   *)
(* ambiguity points alone.                                                 *)
(***************************************************************************)
C6_Remove ==
    (call.op = "remove") =>
        IF call.dqt_id \in Live(pre.tree)
        THEN /\ ret = SomeVal(SegmentOf(pre.tree, call.dqt_id))
             /\ RemovedExactly(pre.tree, tree, call.dqt_id)
             /\ tree.ambiguity_points = pre.tree.ambiguity_points
        ELSE /\ ret = PanicVal
             /\ tree = pre.tree

\* remove was called with an identifier that had already been removed,
\* while another segment was live.
C6_Witness ==
    /\ call.op = "remove"
    /\ call.dqt_id \in pre.removed
    /\ Live(pre.tree) # {}
    /\ ret = PanicVal

(***************************************************************************)
(* The junction scenario: A, B and C inserted in this order into a new     *)
(* tree, then any removals, pops and queries.                              *)
(***************************************************************************)
inserted(self, segment) ==
    (CHOOSE r \in insert(self, segment) : r.ret = UnitVal).tree

JunctionTree ==
    inserted(inserted(inserted(DualQuadTree_new, SegA), SegB), SegC)

InitJunction ==
    /\ tree = JunctionTree
    /\ call = [op |-> "insert", segment |-> SegC]
    /\ ret = UnitVal
    /\ removed = {}
    /\ pre = [tree |-> inserted(inserted(DualQuadTree_new, SegA), SegB),
              removed |-> {}]

NextJunction == Remove \/ Pop \/ QueryForward \/ QueryBackward

SpecJunction == InitJunction /\ [][NextJunction]_vars

(***************************************************************************)
(* C7  Ambiguous junction: a query_forward with allow_ambiguous = false at *)
(* an unpoisoned point P with two or more live starts in its box returns   *)
(* no match, leaves every segment in the tree and records P; no operation  *)
(* takes a recorded point away; and any query at a recorded point returns  *)
(* no match and removes nothing, whichever of the candidates are still     *)
(* live.                                                                   *)
(***************************************************************************)
C7_AmbiguousJunction ==
    /\ (/\ call.op = "query_forward"
        /\ ~call.allow_ambiguous
        /\ ~Poisoned(pre.tree, call.point, call.epsilon)
        /\ Cardinality(StartsNear(pre.tree, call.point, call.epsilon)) >= 2)
       => Deferred
    /\ pre.tree.ambiguity_points \subseteq tree.ambiguity_points
    /\ (IsQuery /\ call.point \in pre.tree.ambiguity_points) =>
          (ret = NoneVal /\ SameSegments(tree, pre.tree))

\* The instance: A, B, C inserted, A and C removed, (1,0) recorded by an
\* earlier query, and a query_forward at (1,0) with only B left returned no
\* match and left B in the tree.
C7_Witness ==
    /\ call.op = "query_forward"
    /\ call.point = Pt(1, 0)
    /\ call.epsilon = 1
    /\ ~call.allow_ambiguous
    /\ Pt(1, 0) \in pre.tree.ambiguity_points
    /\ removed = {0, 2}
    /\ LiveSegments(tree) = {SegB}
    /\ ret = NoneVal

(***************************************************************************)
(* C8  Unambiguous start match: a query_forward (either mode, either       *)
(* allow_ambiguous value) at an unpoisoned point with exactly one live     *)
(* start and no live end in its box returns that segment with its points   *)
(* and closed flag as stored, removes exactly that segment, and records no *)
(* ambiguity point.                                                        *)
(***************************************************************************)
C8_UnambiguousStartMatch ==
    (/\ call.op = "query_forward"
     /\ ~Poisoned(pre.tree, call.point, call.epsilon)
     /\ Cardinality(StartsNear(pre.tree, call.point, call.epsilon)) = 1
     /\ EndsNear(pre.tree, call.point, call.epsilon) = {})
    => \A d \in StartsNear(pre.tree, call.point, call.epsilon) :
          /\ ret = SomeVal(SegmentOf(pre.tree, d))
          /\ RemovedExactly(pre.tree, tree, d)
          /\ tree.ambiguity_points = pre.tree.ambiguity_points

\* The instance: two segments inserted, one removed, B alone in the tree;
\* query_forward at (1,0) returned B and left the tree empty.
C8_Witness ==
    /\ call.op = "query_forward"
    /\ call.point = Pt(1, 0)
    /\ LiveSegments(pre.tree) = {SegB}
    /\ Cardinality(pre.removed) = 1
    /\ ret = SomeVal(SegB)
    /\ Live(tree) = {}
    /\ Cardinality(removed) = 2
    /\ tree.ambiguity_points = {}

(***************************************************************************)
(* C9  Exclusivity: a removed identifier is in neither the map nor an      *)
(* index; a query that returns a segment takes an identifier that was live *)
(* and not removed before the call; a query with no live start and no live *)
(* end in its box returns no match; and a has_forward_neighbor or          *)
(* has_backward_neighbor probe answers true only when a live segment other *)
(* than the probing one has the probed endpoint in the probe's box.        *)
(***************************************************************************)
ProbeBox(p, point, epsilon) ==
    intersects(aabb(p), inflate(aabb(point), epsilon * 2, epsilon * 2))

C9_Exclusivity ==
    /\ removed \cap Live(tree) = {}
    /\ removed \cap (IndexKeys(tree.starts) \cup IndexKeys(tree.ends)) = {}
    /\ (IsQuery /\ ret.tag = "some") =>
          (Cardinality(Taken) = 1 /\ Taken \cap pre.removed = {})
    /\ (/\ IsQuery
        /\ StartsNear(pre.tree, call.point, call.epsilon) = {}
        /\ EndsNear(pre.tree, call.point, call.epsilon) = {})
       => (ret = NoneVal /\ tree = pre.tree)
    /\ \A id \in 0..(tree.id - 1), point \in Points, epsilon \in ProbeEpsilons :
          /\ has_forward_neighbor(tree, id, point, epsilon) =>
                \E d \in Live(tree) \ (removed \cup {id}) :
                    ProbeBox(last(SegmentOf(tree, d)), point, epsilon)
          /\ has_backward_neighbor(tree, id, point, epsilon) =>
                \E d \in Live(tree) \ (removed \cup {id}) :
                    ProbeBox(first(SegmentOf(tree, d)), point, epsilon)

\* Both inserted segments (each has an endpoint at (1,0)) have been removed,
\* no point is recorded, and a query at (1,0) returned no match while both
\* probes there answer false.
C9_Witness ==
    /\ IsQuery
    /\ call.point = Pt(1, 0)
    /\ ret = NoneVal
    /\ Cardinality(removed) = 2
    /\ Cardinality(pre.removed) = 2
    /\ Live(tree) = {}
    /\ tree.ambiguity_points = {}
    /\ ~has_forward_neighbor(tree, 0, Pt(1, 0), 1)
    /\ ~has_backward_neighbor(tree, 0, Pt(1, 0), 1)

(***************************************************************************)
(* C10  Insertion/removal symmetry: when an insert is followed by the      *)
(* removal of the identifier that insert assigned, the removal returns the *)
(* inserted segment, points and closed flag unchanged, and the map and     *)
(* both indices hold exactly what they held before the insert.             *)
(***************************************************************************)
C10_InsertRemoveSymmetry ==
    [][(/\ call.op = "insert"
        /\ ret = UnitVal
        /\ call'.op = "remove"
        /\ call'.dqt_id = pre.tree.id)
       => (/\ ret' = SomeVal(call.segment)
           /\ SameSegments(tree', pre.tree))]_vars

\* B was inserted next to a live A under the newest identifier and removed
\* again: the removal returned B and only A is left.
C10_Witness ==
    /\ call.op = "remove"
    /\ call.dqt_id = tree.id - 1
    /\ call.dqt_id \notin pre.removed
    /\ ret = SomeVal(SegB)
    /\ LiveSegments(tree) = {SegA}
    /\ removed = {call.dqt_id}

(***************************************************************************)
(* C11  Closed-path detection.  As claimed: PathSegment::new of a path     *)
(* whose last point lies within epsilon of its first (at most epsilon away *)
(* on each axis) returns closed = true and one point fewer than the input, *)
(* and otherwise closed = false and exactly the input points.              *)
(***************************************************************************)
AxisDistance(a, b) == IF a <= b THEN b - a ELSE a - b

WithinEpsilon(p, q, epsilon) ==
    /\ AxisDistance(p.x, q.x) <= epsilon
    /\ AxisDistance(p.y, q.y) <= epsilon

\* What PathSegment::new did to the input: dropped the last point and set
\* closed, or kept everything and left closed unset.
NewClosed ==
    /\ ret.tag = "some"
    /\ ret.val.closed
    /\ ret.val.path = SubSeq(call.path, 1, Len(call.path) - 1)

NewOpen ==
    /\ ret.tag = "some"
    /\ ~ret.val.closed
    /\ ret.val.path = call.path

InHalfOpenSquare(p, q, epsilon) ==
    /\ p.x - epsilon <= q.x /\ q.x < p.x + epsilon
    /\ p.y - epsilon <= q.y /\ q.y < p.y + epsilon

C12_NeighborProbes ==
    /\ (call.op = "has_forward_neighbor") =>
          /\ ret = BoolVal(\E d \in Live(pre.tree) \ {call.id} :
                               ProbeBox(last(SegmentOf(pre.tree, d)),
                                        call.point, call.epsilon))
          /\ tree = pre.tree
    /\ (call.op = "has_backward_neighbor") =>
          /\ ret = BoolVal(\E d \in Live(pre.tree) \ {call.id} :
                               ProbeBox(first(SegmentOf(pre.tree, d)),
                                        call.point, call.epsilon))
          /\ tree = pre.tree

\* A is the only live segment and ends at (1,0); a forward probe there on
\* A's own behalf answered false.
C12_Witness ==
    /\ call.op = "has_forward_neighbor"
    /\ call.point = Pt(1, 0)
    /\ Live(tree) = {call.id}
    /\ LiveSegments(tree) = {SegA}
    /\ ret = BoolVal(FALSE)

(***************************************************************************)
(* C13  pop: returns "empty" exactly when the tree holds no segment, and   *)
(* then changes nothing; otherwise it returns a segment that was live      *)
(* before the call and removes exactly that segment's map entry and two    *)
(* index entries, leaving the other segments and the ambiguity points      *)
(* untouched.                                                              *)
(***************************************************************************)
C13_Pop ==
    (call.op = "pop") =>
        IF Live(pre.tree) = {}
        THEN ret = NoneVal /\ tree = pre.tree
        ELSE \E d \in Live(pre.tree) :
                /\ ret = SomeVal(SegmentOf(pre.tree, d))
                /\ RemovedExactly(pre.tree, tree, d)
                /\ tree.ambiguity_points = pre.tree.ambiguity_points

\* pop on a tree holding A and B, with a point recorded, returned B and
\* left A and the recorded point.
C13_Witness ==
    /\ call.op = "pop"
    /\ LiveSegments(pre.tree) = {SegA, SegB}
    /\ pre.tree.ambiguity_points # {}
    /\ ret = SomeVal(SegB)
    /\ LiveSegments(tree) = {SegA}
    /\ tree.ambiguity_points = pre.tree.ambiguity_points

(***************************************************************************)
(* C14  Ends match of query_forward: in general mode at an unpoisoned      *)
(* point with no live start in the box and a live end in it (exactly one   *)
(* when allow_ambiguous = false), query_forward removes one segment whose  *)
(* end is in the box and returns it with its points in the reverse of the  *)
(* stored order and its closed flag unchanged, so that the returned        *)
(* segment begins at the matched end; no ambiguity point is recorded.      *)
(***************************************************************************)
C14_ForwardEndsMatchReversed ==
    (/\ call.op = "query_forward"
     /\ ~call.only_starts
     /\ ~Poisoned(pre.tree, call.point, call.epsilon)
     /\ StartsNear(pre.tree, call.point, call.epsilon) = {}
     /\ EndsNear(pre.tree, call.point, call.epsilon) # {}
     /\ \/ call.allow_ambiguous
        \/ Cardinality(EndsNear(pre.tree, call.point, call.epsilon)) = 1)
    => \E d \in EndsNear(pre.tree, call.point, call.epsilon) :
          /\ ret.tag = "some"
          /\ IsReverseOf(ret.val.path, SegmentOf(pre.tree, d).path)
          /\ ret.val.closed = SegmentOf(pre.tree, d).closed
          /\ first(ret.val) = last(SegmentOf(pre.tree, d))
          /\ RemovedExactly(pre.tree, tree, d)
          /\ tree.ambiguity_points = pre.tree.ambiguity_points

\* B = [(1,0),(2,0)] alone in the tree; query_forward at (2,0) in general
\* mode returned [(2,0),(1,0)] and emptied the tree.
C14_Witness ==
    /\ call.op = "query_forward"
    /\ ~call.only_starts
    /\ ~call.allow_ambiguous
    /\ call.point = Pt(2, 0)
    /\ call.epsilon = 1
    /\ LiveSegments(pre.tree) = {SegB}
    /\ ret = SomeVal([path |-> <<Pt(2, 0), Pt(1, 0)>>, closed |-> FALSE])
    /\ Live(tree) = {}

(***************************************************************************)
(* C15  Simultaneous start-and-end hit at an unpoisoned point (each index  *)
(* classified as a single match: one entry in the box, or at least one     *)
(* when allow_ambiguous = true).                                           *)
(***************************************************************************)
BothHit ==
    /\ IsQuery
    /\ ~Poisoned(pre.tree, call.point, call.epsilon)
    /\ IF call.allow_ambiguous
       THEN /\ StartsNear(pre.tree, call.point, call.epsilon) # {}
            /\ EndsNear(pre.tree, call.point, call.epsilon) # {}
       ELSE /\ Cardinality(StartsNear(pre.tree, call.point, call.epsilon)) = 1
            /\ Cardinality(EndsNear(pre.tree, call.point, call.epsilon)) = 1

\* The three cases of the claim, without its last sentence: starts-only
\* mode, and general mode with allow_ambiguous = false, defer the call;
\* query_forward in general mode with allow_ambiguous = true removes a
\* segment whose start is in the box, returns it as stored and records
\* nothing.
BothHitCases ==
    /\ (BothHit /\ (call.only_starts \/ ~call.allow_ambiguous)) => Deferred
    /\ (BothHit /\ call.op = "query_forward"
                /\ ~call.only_starts /\ call.allow_ambiguous)
       => \E d \in StartsNear(pre.tree, call.point, call.epsilon) :
             /\ ret = SomeVal(SegmentOf(pre.tree, d))
             /\ RemovedExactly(pre.tree, tree, d)
             /\ tree.ambiguity_points = pre.tree.ambiguity_points

WrapTree(segment) ==
    [inserted(DualQuadTree_new, segment) EXCEPT
        !.id = U32_MAX - 1,
        !.starts.id = U32_MAX - 1,
        !.ends.id = U32_MAX - 1]

InitWrap ==
    /\ \E segment \in Segments : tree = WrapTree(segment)
    /\ call = [op |-> "init"]
    /\ ret = UnitVal
    /\ removed = {}
    /\ pre = [tree |-> tree, removed |-> {}]

NextWrap == Insert \/ Remove \/ Pop

SpecWrap == InitWrap /\ [][NextWrap]_vars

(***************************************************************************)
(* C16  Identifier freshness.  As claimed: every insert, also at the end   *)
(* of the 32-bit range, succeeds under an identifier that is neither live  *)
(* nor was assigned before, adds exactly one map entry, one starts entry   *)
(* and one ends entry, and overwrites no entry.                            *)
(***************************************************************************)
C16_IdentifierFreshness ==
    (call.op = "insert") =>
        /\ ret = UnitVal
        /\ pre.tree.id \notin Live(pre.tree) \cup pre.removed
        /\ Live(tree) = Live(pre.tree) \cup {pre.tree.id}
        /\ \A d \in Live(pre.tree) :
              tree.id_to_segment[d] = pre.tree.id_to_segment[d]
        /\ Cardinality(DOMAIN tree.starts.elements)
              = Cardinality(DOMAIN pre.tree.starts.elements) + 1
        /\ Cardinality(DOMAIN tree.ends.elements)
              = Cardinality(DOMAIN pre.tree.ends.elements) + 1

(***************************************************************************)
(* C17  Distinct hits.  As claimed: whenever a query at an unpoisoned      *)
(* point has both a start and an end in its box, these belong to two       *)
(* different segments; and with a single live segment a query never        *)
(* records its point as ambiguous.                                         *)
(***************************************************************************)
C17_HitsAreDifferentSegments ==
    (IsQuery /\ ~Poisoned(pre.tree, call.point, call.epsilon)) =>
        /\ (/\ StartsNear(pre.tree, call.point, call.epsilon) # {}
            /\ EndsNear(pre.tree, call.point, call.epsilon) # {})
           => \E a \in StartsNear(pre.tree, call.point, call.epsilon),
                 b \in EndsNear(pre.tree, call.point, call.epsilon) : a # b
        /\ (Cardinality(Live(pre.tree)) = 1)
           => tree.ambiguity_points = pre.tree.ambiguity_points

(***************************************************************************)
(* C18  Segment conservation: every identifier handed out is live or has   *)
(* been taken out, never both; an insert adds the inserted segment under   *)
(* a new identifier and changes no other entry; a call that returns a      *)
(* segment takes exactly one entry out of the map and returns that entry's *)
(* segment, in stored or reversed point order; a call that returns no      *)
(* segment (or panics) leaves the map as it was.  So each inserted segment *)
(* is in the tree or was handed back exactly once, and nothing else is     *)
(* handed back.                                                            *)
(***************************************************************************)
C18_SegmentConservation ==
    /\ Live(tree) \cup removed = 0..(tree.id - 1)
    /\ Live(tree) \cap removed = {}
    /\ (call.op = "insert" /\ ret = UnitVal) =>
          /\ pre.tree.id \notin Live(pre.tree) \cup pre.removed
          /\ Live(tree) = Live(pre.tree) \cup {pre.tree.id}
          /\ SegmentOf(tree, pre.tree.id) = call.segment
          /\ \A d \in Live(pre.tree) :
                SegmentOf(tree, d) = SegmentOf(pre.tree, d)
    /\ (call.op # "insert" /\ ret.tag = "some") =>
          \E d \in Live(pre.tree) :
              /\ Live(tree) = Live(pre.tree) \ {d}
              /\ removed = pre.removed \cup {d}
              /\ \A k \in Live(tree) :
                    SegmentOf(tree, k) = SegmentOf(pre.tree, k)
              /\ \/ ret.val = SegmentOf(pre.tree, d)
                 \/ ret.val = reverse_and_return(SegmentOf(pre.tree, d))
    /\ (call.op # "insert" /\ ret.tag # "some") =>
          /\ tree.id_to_segment = pre.tree.id_to_segment
          /\ removed = pre.removed

\* Two segments were inserted and both have been handed back, the second
\* one by a query_backward that reversed it; the tree is empty.
C18_Witness ==
    /\ call.op = "query_backward"
    /\ tree.id = 2
    /\ removed = {0, 1}
    /\ Live(tree) = {}
    /\ Cardinality(Live(pre.tree)) = 1
    /\ \E d \in Live(pre.tree) :
          /\ ret = SomeVal(reverse_and_return(SegmentOf(pre.tree, d)))
          /\ ret.val # SegmentOf(pre.tree, d)

(***************************************************************************)
(* The orchestrator's loop on a tree that receives no further insert: pop  *)
(* a segment, call query_forward until it returns no match, call           *)
(* query_backward until it returns no match, and pop again; the loop ends  *)
(* when pop signals empty.  The position in the loop is read off the last  *)
(* call and its result.  The caller keeps running, so a step that is       *)
(* enabled is eventually taken.                                            *)
(***************************************************************************)
LoopPop ==
    /\ \/ call.op \in {"init", "insert"}
       \/ (call.op = "query_backward" /\ ret = NoneVal)
    /\ Pop

LoopForward ==
    /\ call.op \in {"pop", "query_forward"}
    /\ ret.tag = "some"
    /\ QueryForward

LoopBackward ==
    /\ \/ (call.op = "query_forward" /\ ret = NoneVal)
       \/ (call.op = "query_backward" /\ ret.tag = "some")
    /\ QueryBackward

NextLoop == LoopPop \/ LoopForward \/ LoopBackward

SpecLoop == InitJunction /\ [][NextLoop]_vars /\ WF_vars(NextLoop)

(***************************************************************************)
(* C19  Loop termination: in the orchestrator's loop every pop that        *)
(* returns a segment and every query that returns one lowers the number of *)
(* live segments by exactly one, a query that returns no match and a pop   *)
(* that signals empty leave it unchanged, and the loop reaches a pop that  *)
(* signals empty.                                                          *)
(***************************************************************************)
LoopCounts ==
    /\ (call.op \in {"pop", "query_forward", "query_backward"} /\ ret.tag = "some")
       => Cardinality(Live(tree)) = Cardinality(Live(pre.tree)) - 1
    /\ (call.op \in {"pop", "query_forward", "query_backward"} /\ ret.tag # "some")
       => /\ ret = NoneVal
          /\ Live(tree) = Live(pre.tree)
    /\ Cardinality(Live(tree)) <= Cardinality(Live(pre.tree)) \/ call.op = "insert"

PopSignalsEmpty == call.op = "pop" /\ ret = NoneVal

C19_LoopTerminates == []LoopCounts /\ <>PopSignalsEmpty

\* The loop has run to its end on the tree that held A, B and C: all three
\* were handed back and the last pop signalled empty.
C19_Witness ==
    /\ PopSignalsEmpty
    /\ Live(tree) = {}
    /\ Live(pre.tree) = {}
    /\ removed = {0, 1, 2}

(***************************************************************************)
(* C20  Frame of the operations: a query that returns no match leaves the  *)
(* map and both indices unchanged and adds at most its own point to the    *)
(* ambiguity points, and none when its box was already poisoned; a query   *)
(* that returns a segment removes exactly one segment and adds no          *)
(* ambiguity point; insert, remove and pop leave the ambiguity points as   *)
(* they were; and no operation removes an ambiguity point.                 *)
(***************************************************************************)
C20_Frame ==
    /\ pre.tree.ambiguity_points \subseteq tree.ambiguity_points
    /\ (IsQuery /\ ret.tag # "some") =>
          /\ ret = NoneVal
          /\ SameSegments(tree, pre.tree)
          /\ tree.ambiguity_points
                \subseteq pre.tree.ambiguity_points \cup {call.point}
          /\ Poisoned(pre.tree, call.point, call.epsilon)
                => tree.ambiguity_points = pre.tree.ambiguity_points
    /\ (IsQuery /\ ret.tag = "some") =>
          /\ \E d \in Live(pre.tree) : RemovedExactly(pre.tree, tree, d)
          /\ tree.ambiguity_points = pre.tree.ambiguity_points
    /\ (call.op \in {"insert", "remove", "pop"}) =>
          tree.ambiguity_points = pre.tree.ambiguity_points

\* A query that returned no match added its point to the one recorded
\* before and left both segments in the tree.
C20_Witness ==
    /\ IsQuery
    /\ ret = NoneVal
    /\ Cardinality(pre.tree.ambiguity_points) = 1
    /\ call.point \notin pre.tree.ambiguity_points
    /\ tree.ambiguity_points = pre.tree.ambiguity_points \cup {call.point}
    /\ Cardinality(Live(tree)) = 2
    /\ SameSegments(tree, pre.tree)

=============================================================================
